---- MODULE Spec2Model ----
(***************************************************************************)
(* Tessera scheduler: quota-gated admission (backend/main.py), the store   *)
(* (backend/database.py), the in-memory worker registry and the dispatch   *)
(* loop with its spawned dispatch tasks (backend/scheduler.py).            *)
(*                                                                         *)
(* The scheduler runs on one asyncio event loop, so the code between two   *)
(* awaits is atomic.  Every action below is one such slice: a store call   *)
(* or worker RPC takes effect and the coroutine that awaited it runs on    *)
(* until it has issued its next call.  Arguments that the code evaluates   *)
(* when it issues a call (datetime.utcnow()) are therefore evaluated in    *)
(* the slice before the one in which the call takes effect.                *)
(*                                                                         *)
(* Token amounts are Decimals with one fractional digit in the code; they  *)
(* are counted here in tenths of a token (Decimal("0.5") is 5).            *)
(***************************************************************************)
EXTENDS Integers, Sequences, FiniteSets, TLC

VARIABLES
    users,      \* table users: the rows inserted by get_or_create_user
    calls,      \* the get_or_create_user calls for keys that are not seeded
    now,        \* datetime.utcnow(), in seconds
    jobs,       \* table jobs: row i has id i
    artifacts,  \* table artifacts: row i has id i
    usage,      \* table usage_daily: key <<user_id, date>> -> row
    workers,    \* WorkerManager.workers: dict in insertion order, id -> proxy
    proxies,    \* every WorkerProxy object constructed so far
    loop,       \* the start_dispatch_loop coroutine
    tasks,      \* the dispatch_job coroutines spawned by create_task
    reqs,       \* the create_job endpoint coroutines
    faults      \* store calls that have raised so far

vars == <<users, calls, now, jobs, artifacts, usage, workers, proxies, loop, tasks, reqs, faults>>

----------------------------------------------------------------------------
\* Bounds of the exploration.

\* admission requests accepted by the endpoint
MaxJobs == 2
\* jobs found QUEUED in the store at startup
MaxQueued == 2
\* dispatch_job tasks spawned
MaxTasks == 2
\* WorkerProxy objects constructed (heartbeats received)
MaxProxies == 2
\* artifacts in one worker response
MaxArtifacts == 1
\* store calls that raise
MaxFaults == 1
\* clock advances
MaxTicks == 2
\* get_or_create_user calls for keys that have no row yet
MaxCalls == 3

\* Program constants.

HEARTBEAT_TTL == 60
TICK == 30
PER_JOB_ESTIMATE == 20
IMAGE_COST == 10
DEFAULT_COST == 5
DAY == 86400

\* A column or field that is not set.
NULL == -1

----------------------------------------------------------------------------
\* Seed data: plans and users rows, and the worker processes of the fleet.

Capabilities == {"image", "text"}

\* plans: id -> [daily_token_limit, priority]; plan 1 is the free plan.
Plans == <<[daily_token_limit |-> 10, priority |-> 0],
           [daily_token_limit |-> 200, priority |-> 2]>>

\* users: id -> plan_id.
Users == <<1, 2>>

UserIds == 1..Len(Users)

\* worker id -> the capabilities its heartbeat_loop advertises.
WorkerCaps == <<{"image"}, {"text"}>>

WorkerIds == 1..Len(WorkerCaps)

DateOf(t) == t \div DAY

\* (platform, platform_uid) keys of users that have no row at startup.
NewKeys == {"telegram:7", "telegram:8"}

----------------------------------------------------------------------------
\* backend/database.py

\* SELECT u.*, p.daily_token_limit, p.priority FROM users u JOIN plans p
get_or_create_user(uid) ==
    [id |-> uid,
     daily_token_limit |-> Plans[Users[uid]].daily_token_limit,
     priority |-> Plans[Users[uid]].priority]

\* The rows of table users with the given (platform, platform_uid).
user_rows(key) == {i \in DOMAIN users : users[i].key = key}

\* The unique index users(platform, platform_user_id) rejects the INSERT.
UniqueViolation(key) == user_rows(key) # {}

SetCall(c, rec) == [calls EXCEPT ![c] = rec]

\* get_or_create_user is called for a key and issues its first SELECT.
UserCall(key) ==
    /\ Len(calls) < MaxCalls
    /\ calls' = Append(calls, [pc |-> "select", key |-> key, user_id |-> 0])
    /\ UNCHANGED <<users, now, jobs, artifacts, usage, workers, proxies, loop, tasks, reqs, faults>>

\* The first SELECT returns: the row is returned, or the INSERT is issued.
UserSelect(c) ==
    /\ c \in DOMAIN calls
    /\ calls[c].pc = "select"
    /\ IF user_rows(calls[c].key) # {}
       THEN \E i \in user_rows(calls[c].key) :
               calls' = SetCall(c, [calls[c] EXCEPT !.pc = "done", !.user_id = Len(Users) + i])
       ELSE calls' = SetCall(c, [calls[c] EXCEPT !.pc = "insert"])
    /\ UNCHANGED <<users, now, jobs, artifacts, usage, workers, proxies, loop, tasks, reqs, faults>>

\* INSERT INTO users (..., plan_id) VALUES (..., 1) RETURNING id: the row is
\* inserted and the second SELECT is issued, or the INSERT raises.
UserInsert(c) ==
    /\ c \in DOMAIN calls
    /\ calls[c].pc = "insert"
    /\ IF UniqueViolation(calls[c].key)
       THEN /\ calls' = SetCall(c, [calls[c] EXCEPT !.pc = "raised"])
            /\ users' = users
       ELSE /\ users' = Append(users, [key |-> calls[c].key, plan_id |-> 1])
            /\ calls' = SetCall(c, [calls[c] EXCEPT !.pc = "fetch",
                                                     !.user_id = Len(Users) + Len(users) + 1])
    /\ UNCHANGED <<now, jobs, artifacts, usage, workers, proxies, loop, tasks, reqs, faults>>

\* The second SELECT (WHERE u.id = $1) returns the new row.
UserFetch(c) ==
    /\ c \in DOMAIN calls
    /\ calls[c].pc = "fetch"
    /\ calls' = SetCall(c, [calls[c] EXCEPT !.pc = "done"])
    /\ UNCHANGED <<users, now, jobs, artifacts, usage, workers, proxies, loop, tasks, reqs, faults>>

\* get_usage: the row, or the Usage dummy with tokens_used = 0.
get_usage(user_id, date) ==
    IF <<user_id, date>> \in DOMAIN usage
    THEN usage[<<user_id, date>>].tokens_used
    ELSE 0

\* The row that INSERT INTO jobs (...) creates.  reply_context goes to the
\* column metadata; the other columns keep their defaults.
job_row(job_data) ==
    [user_id |-> job_data.user_id,
     capability |-> job_data.capability,
     status |-> job_data.status,
     priority |-> job_data.priority,
     cost_tokens |-> job_data.cost_tokens,
     created_at |-> job_data.created_at,
     metadata |-> job_data.reply_context,
     queued_at |-> NULL,
     started_at |-> NULL,
     ended_at |-> NULL,
     worker_id |-> 0,
     error |-> "none"]

\* INSERT INTO jobs (...) RETURNING id
create_job(job_data) == Append(jobs, job_row(job_data))

\* UPDATE jobs SET k = v, ... WHERE id = job_id: unconditional on status.
\* kwargs is a record of the columns to set.
update_job(job_id, kwargs) ==
    IF job_id \in DOMAIN jobs
    THEN [jobs EXCEPT ![job_id] =
            [c \in DOMAIN @ |-> IF c \in DOMAIN kwargs THEN kwargs[c] ELSE @[c]]]
    ELSE jobs

\* The count with "created no later" in place of "created earlier".
count_queued_jobs_not_after(job_id, priority) ==
    Cardinality({j \in DOMAIN jobs :
        /\ jobs[j].status = "QUEUED"
        /\ \/ jobs[j].priority > priority
           \/ /\ jobs[j].priority = priority
              /\ jobs[j].created_at <= jobs[job_id].created_at})

\* SELECT COUNT(*) ... WHERE status = 'QUEUED' AND (priority > $1 OR
\*   (priority = $1 AND created_at < (SELECT created_at ... WHERE id = $2)))
count_queued_jobs_before(job_id, priority) ==
    Cardinality({j \in DOMAIN jobs :
        /\ jobs[j].status = "QUEUED"
        /\ \/ jobs[j].priority > priority
           \/ /\ jobs[j].priority = priority
              /\ jobs[j].created_at < jobs[job_id].created_at})

\* SELECT * FROM jobs WHERE status = 'QUEUED' AND priority = $1
\*   ORDER BY created_at ASC LIMIT 1
\* The capability argument is not used by the query.  The result is the set
\* of rows the query may return: rows of equal created_at are in no order.
get_next_queued_job(priority, capability) ==
    {j \in DOMAIN jobs :
        /\ jobs[j].status = "QUEUED"
        /\ jobs[j].priority = priority
        /\ \A k \in DOMAIN jobs :
             (jobs[k].status = "QUEUED" /\ jobs[k].priority = priority)
                => jobs[j].created_at <= jobs[k].created_at}

\* INSERT INTO artifacts (...) RETURNING id
create_artifact(artifact_data) ==
    Append(artifacts, [job_id |-> artifact_data.job_id])

\* INSERT ... ON CONFLICT (user_id, date) DO UPDATE SET tokens_used = ... + $3
update_usage(user_id, date, tokens_used_increment, jobs_completed_increment) ==
    LET key == <<user_id, date>>
        old == IF key \in DOMAIN usage
               THEN usage[key]
               ELSE [tokens_used |-> 0, jobs_completed |-> 0]
        new == [tokens_used |-> old.tokens_used + tokens_used_increment,
                jobs_completed |-> old.jobs_completed + jobs_completed_increment]
    IN [k \in DOMAIN usage \cup {key} |-> IF k = key THEN new ELSE usage[k]]

\* A store call may raise (connection lost, pool timeout).
StoreRaises == faults < MaxFaults

----------------------------------------------------------------------------
\* backend/scheduler.py: WorkerProxy, WorkerManager

\* WorkerProxy.__init__
WorkerProxy(worker_id, capabilities) ==
    [id |-> worker_id,
     capabilities |-> capabilities,
     status |-> "idle",
     last_heartbeat |-> now]

\* WorkerProxy.is_healthy
is_healthy(worker) == now - worker.last_heartbeat < HEARTBEAT_TTL

\* WorkerManager.register_worker: self.workers[worker_id] = WorkerProxy(...)
\* A dict keeps a replaced key at its place in the iteration order.
register_worker(worker_id, p) ==
    IF \E i \in DOMAIN workers : workers[i].id = worker_id
    THEN [i \in DOMAIN workers |->
            IF workers[i].id = worker_id
            THEN [id |-> worker_id, proxy |-> p]
            ELSE workers[i]]
    ELSE Append(workers, [id |-> worker_id, proxy |-> p])

\* Scheduler.find_idle_worker over a given heap of proxies: the first idle,
\* healthy worker in dict order, as a reference into proxies (0 is None).
find_idle_worker(heap) ==
    LET ok == {i \in DOMAIN workers :
                 /\ heap[workers[i].proxy].status = "idle"
                 /\ is_healthy(heap[workers[i].proxy])}
    IN IF ok = {} THEN 0
       ELSE workers[CHOOSE i \in ok : \A k \in ok : i <= k].proxy

----------------------------------------------------------------------------
\* backend/main.py

\* calculate_token_cost: reads the capability from params, not from the request.
calculate_token_cost(params) ==
    IF params.capability = "image" THEN IMAGE_COST ELSE DEFAULT_COST

estimate_job_time(queue_position) == (queue_position + 1) * PER_JOB_ESTIMATE

\* The quota check with the cost of the new job left out.
quota_exceeded_without_cost(tokens_used, cost, limit) == tokens_used > limit

\* The quota check of the create_job endpoint.
quota_exceeded(tokens_used, cost, limit) == tokens_used + cost > limit

\* The requests the frontends send: the request's capability and the
\* "capability" key of params ("absent" when params has no such key).
RequestShapes ==
    {[capability |-> "image", params |-> [capability |-> "image"]],
     [capability |-> "image", params |-> [capability |-> "absent"]],
     [capability |-> "text",  params |-> [capability |-> "absent"]]}

ReplyContexts == {"chat"}

SetReq(r, rec) == [reqs EXCEPT ![r] = rec]

\* The request arrives; get_or_create_user finds the user's row (users are
\* seeded); the endpoint issues get_usage for today's date.
AdmitRequest(uid, shape, rc) ==
    /\ Len(reqs) < MaxJobs
    /\ LET user == get_or_create_user(uid)
       IN reqs' = Append(reqs,
            [pc |-> "get_usage", user_id |-> user.id,
             limit |-> user.daily_token_limit, priority |-> user.priority,
             capability |-> shape.capability, params |-> shape.params,
             reply_context |-> rc, ts |-> now, seen |-> NULL, cost |-> 0,
             job_id |-> 0, result |-> 0, queue_position |-> NULL,
             estimated_time_seconds |-> NULL])
    /\ UNCHANGED <<users, calls, now, jobs, artifacts, usage, workers, proxies, loop, tasks, faults>>

\* A store call of the endpoint raises: the request ends with an error.
AdmitStoreError(r) ==
    /\ r \in DOMAIN reqs
    /\ reqs[r].pc \in {"get_usage", "create_job", "update_queued", "count"}
    /\ StoreRaises
    /\ faults' = faults + 1
    /\ reqs' = SetReq(r, [reqs[r] EXCEPT !.pc = "done", !.result = 500])
    /\ UNCHANGED <<users, calls, now, jobs, artifacts, usage, workers, proxies, loop, tasks>>

\* get_usage returns; quota check; on success job_data is built
\* (created_at = utcnow()) and db.create_job is issued.
AdmitGetUsage(r) ==
    /\ r \in DOMAIN reqs
    /\ reqs[r].pc = "get_usage"
    /\ LET q == reqs[r]
           tokens_used == get_usage(q.user_id, DateOf(q.ts))
           cost == calculate_token_cost(q.params)
       IN reqs' = SetReq(r,
            IF quota_exceeded(tokens_used, cost, q.limit)
            THEN [q EXCEPT !.pc = "done", !.result = 402, !.seen = tokens_used,
                           !.cost = cost, !.ts = NULL]
            ELSE [q EXCEPT !.pc = "create_job", !.seen = tokens_used,
                           !.cost = cost, !.ts = now])
    /\ UNCHANGED <<users, calls, now, jobs, artifacts, usage, workers, proxies, loop, tasks, faults>>

\* db.create_job inserts the row with status CREATED; update_job is issued
\* with queued_at = utcnow().
AdmitCreateJob(r) ==
    /\ r \in DOMAIN reqs
    /\ reqs[r].pc = "create_job"
    /\ LET q == reqs[r]
       IN /\ jobs' = create_job([user_id |-> q.user_id, capability |-> q.capability,
                                 status |-> "CREATED", priority |-> q.priority,
                                 cost_tokens |-> q.cost, created_at |-> q.ts,
                                 reply_context |-> q.reply_context])
          /\ reqs' = SetReq(r, [q EXCEPT !.pc = "update_queued",
                                         !.job_id = Len(jobs) + 1, !.ts = now])
    /\ UNCHANGED <<users, calls, now, artifacts, usage, workers, proxies, loop, tasks, faults>>

\* update_job(job.id, status="QUEUED", queued_at=...) takes effect.
AdmitUpdateQueued(r) ==
    /\ r \in DOMAIN reqs
    /\ reqs[r].pc = "update_queued"
    /\ jobs' = update_job(reqs[r].job_id, [status |-> "QUEUED", queued_at |-> reqs[r].ts])
    /\ reqs' = SetReq(r, [reqs[r] EXCEPT !.pc = "count", !.ts = NULL])
    /\ UNCHANGED <<users, calls, now, artifacts, usage, workers, proxies, loop, tasks, faults>>

\* count_queued_jobs_before returns; the endpoint answers 200.
AdmitCount(r) ==
    /\ r \in DOMAIN reqs
    /\ reqs[r].pc = "count"
    /\ LET q == reqs[r]
           queue_pos == count_queued_jobs_before(q.job_id, q.priority)
       IN reqs' = SetReq(r, [q EXCEPT !.pc = "done", !.result = 200,
                                      !.queue_position = queue_pos,
                                      !.estimated_time_seconds = estimate_job_time(queue_pos)])
    /\ UNCHANGED <<users, calls, now, jobs, artifacts, usage, workers, proxies, loop, tasks, faults>>

\* The heartbeat endpoint: register_worker replaces the worker's proxy.
Heartbeat(worker_id) ==
    /\ Len(proxies) < MaxProxies
    /\ proxies' = Append(proxies, WorkerProxy(worker_id, WorkerCaps[worker_id]))
    /\ workers' = register_worker(worker_id, Len(proxies) + 1)
    /\ UNCHANGED <<users, calls, now, jobs, artifacts, usage, loop, tasks, reqs, faults>>

\* Time passes.
Tick ==
    /\ now < MaxTicks * TICK
    /\ now' = now + TICK
    /\ UNCHANGED <<users, calls, jobs, artifacts, usage, workers, proxies, loop, tasks, reqs, faults>>

----------------------------------------------------------------------------
\* backend/scheduler.py: Scheduler

SetTask(t, rec) == [tasks EXCEPT ![t] = rec]
SetStatus(p, st) == [proxies EXCEPT ![p].status = st]

\* asyncio.create_task(self.dispatch_job(worker, job)): the task does not run
\* before the loop coroutine suspends.  A task ends with pc "done"
\* (handle_job_completion returned), "failed" (handle_job_failure returned)
\* or "raised" (an exception left dispatch_job).
create_task(worker, job) ==
    Append(tasks, [pc |-> "created", worker |-> worker, job |-> job,
                   ts |-> NULL, response |-> "none", n_artifacts |-> 0])

\* The top of the while body: find_idle_worker has no suspension point, so
\* the loop either goes to sleep(1) or issues the first query of
\* select_next_job (priority 3) in the same slice.
loop_top(heap) ==
    LET worker == find_idle_worker(heap)
    IN IF worker = 0
       THEN [pc |-> "sleep", worker |-> 0, priority |-> 0]
       ELSE [pc |-> "select", worker |-> worker, priority |-> 3]

\* The loop coroutine can run again.  A task spawned by create_task is
\* already in the event loop's ready queue when the loop coroutine suspends,
\* while the loop's own wake-up needs a later I/O or timer event: the first
\* slice of a spawned task runs before the next slice of the loop.
LoopResumes ==
    \A t \in DOMAIN tasks : tasks[t].pc # "created"

\* asyncio.sleep returns and the loop starts its next iteration.
LoopWake ==
    /\ loop.pc = "sleep"
    /\ LoopResumes
    /\ loop' = loop_top(proxies)
    /\ UNCHANGED <<users, calls, now, jobs, artifacts, usage, workers, proxies, tasks, reqs, faults>>

\* select_next_job with the priority list [3, 2, 1]: priority 0 is not queried.
LoopSelectNoneAbovePriority0 ==
    /\ loop.pc = "select"
    /\ LoopResumes
    /\ \/ get_next_queued_job(loop.priority, proxies[loop.worker].capabilities) = {}
       \/ loop.priority = 0
    /\ loop' = IF loop.priority > 1
               THEN [loop EXCEPT !.priority = @ - 1]
               ELSE [pc |-> "sleep", worker |-> 0, priority |-> 0]
    /\ UNCHANGED <<users, calls, now, jobs, artifacts, usage, workers, proxies, tasks, reqs, faults>>

\* select_next_job: the query for loop.priority returns no row; the next
\* priority of [3, 2, 1, 0] is queried, or the loop sleeps.
LoopSelectNone ==
    /\ loop.pc = "select"
    /\ LoopResumes
    /\ get_next_queued_job(loop.priority, proxies[loop.worker].capabilities) = {}
    /\ loop' = IF loop.priority > 0
               THEN [loop EXCEPT !.priority = @ - 1]
               ELSE [pc |-> "sleep", worker |-> 0, priority |-> 0]
    /\ UNCHANGED <<users, calls, now, jobs, artifacts, usage, workers, proxies, tasks, reqs, faults>>

\* select_next_job: the query returns a row; the loop spawns dispatch_job
\* and runs on into its next iteration.
LoopDispatch ==
    /\ loop.pc = "select"
    /\ LoopResumes
    /\ \E job \in get_next_queued_job(loop.priority, proxies[loop.worker].capabilities) :
         tasks' = create_task(loop.worker, job)
    /\ loop' = loop_top(proxies)
    /\ UNCHANGED <<users, calls, now, jobs, artifacts, usage, workers, proxies, reqs, faults>>

\* The query raises and the exception ends the loop coroutine.
LoopStoreErrorEndsLoop ==
    /\ loop.pc = "select"
    /\ LoopResumes
    /\ StoreRaises
    /\ faults' = faults + 1
    /\ loop' = [pc |-> "ended", worker |-> 0, priority |-> 0]
    /\ UNCHANGED <<users, calls, now, jobs, artifacts, usage, workers, proxies, tasks, reqs>>

\* The query raises: except Exception, sleep(2).
LoopStoreError ==
    /\ loop.pc = "select"
    /\ LoopResumes
    /\ StoreRaises
    /\ faults' = faults + 1
    /\ loop' = [pc |-> "sleep", worker |-> 0, priority |-> 0]
    /\ UNCHANGED <<users, calls, now, jobs, artifacts, usage, workers, proxies, tasks, reqs>>

\* dispatch_job starts: worker.status = "busy", update_job(RUNNING) issued
\* with started_at = utcnow().
TaskStart(t) ==
    /\ t \in DOMAIN tasks
    /\ tasks[t].pc = "created"
    /\ proxies' = SetStatus(tasks[t].worker, "busy")
    /\ tasks' = SetTask(t, [tasks[t] EXCEPT !.pc = "update_running", !.ts = now])
    /\ UNCHANGED <<users, calls, now, jobs, artifacts, usage, workers, loop, reqs, faults>>

\* update_job(status="RUNNING", started_at, worker_id) takes effect; the
\* payload is built and the worker RPC is sent.
TaskUpdateRunning(t) ==
    /\ t \in DOMAIN tasks
    /\ tasks[t].pc = "update_running"
    /\ jobs' = update_job(tasks[t].job,
                  [status |-> "RUNNING", started_at |-> tasks[t].ts,
                   worker_id |-> proxies[tasks[t].worker].id])
    /\ tasks' = SetTask(t, [tasks[t] EXCEPT !.pc = "run_job", !.ts = NULL])
    /\ UNCHANGED <<users, calls, now, artifacts, usage, workers, proxies, loop, reqs, faults>>

\* That update_job raises: it is outside the try, so the exception leaves
\* dispatch_job without reaching the finally clause.
TaskUpdateRunningError(t) ==
    /\ t \in DOMAIN tasks
    /\ tasks[t].pc = "update_running"
    /\ StoreRaises
    /\ faults' = faults + 1
    /\ tasks' = SetTask(t, [tasks[t] EXCEPT !.pc = "raised", !.ts = NULL])
    /\ UNCHANGED <<users, calls, now, jobs, artifacts, usage, workers, proxies, loop, reqs>>

\* The first call handle_job_completion issues: create_artifact for the
\* first artifact, or update_job(COMPLETED) with ended_at = utcnow().
completion_next(task, n) ==
    IF n > 0
    THEN [task EXCEPT !.pc = "create_artifact", !.n_artifacts = n, !.ts = NULL]
    ELSE [task EXCEPT !.pc = "update_completed", !.n_artifacts = 0, !.ts = now]

\* except Exception: handle_job_failure issues update_job(FAILED) with
\* ended_at = utcnow().
failure_next(task) ==
    [task EXCEPT !.pc = "update_failed", !.n_artifacts = 0, !.ts = now]

\* worker.run_job returns a 2xx response with a JSON body; its "status" is
\* "completed" or "failed".  handle_job_completion reads only "artifacts"
\* and "execution_time_seconds".
TaskRunJobReturns(t, status, n) ==
    /\ t \in DOMAIN tasks
    /\ tasks[t].pc = "run_job"
    /\ tasks' = SetTask(t, completion_next([tasks[t] EXCEPT !.response = status], n))
    /\ UNCHANGED <<users, calls, now, jobs, artifacts, usage, workers, proxies, loop, reqs, faults>>

\* worker.run_job raises: non-2xx (raise_for_status), a body that is not
\* JSON, a timeout or a transport error.
TaskRunJobRaises(t) ==
    /\ t \in DOMAIN tasks
    /\ tasks[t].pc = "run_job"
    /\ tasks' = SetTask(t, failure_next([tasks[t] EXCEPT !.response = "error"]))
    /\ UNCHANGED <<users, calls, now, jobs, artifacts, usage, workers, proxies, loop, reqs, faults>>

\* create_artifact inserts a row; the next artifact or update_job follows.
TaskCreateArtifact(t) ==
    /\ t \in DOMAIN tasks
    /\ tasks[t].pc = "create_artifact"
    /\ artifacts' = create_artifact([job_id |-> tasks[t].job])
    /\ tasks' = SetTask(t, completion_next(tasks[t], tasks[t].n_artifacts - 1))
    /\ UNCHANGED <<users, calls, now, jobs, usage, workers, proxies, loop, reqs, faults>>

\* update_job(status="COMPLETED", ended_at, metadata) takes effect;
\* get_user is issued.
TaskUpdateCompleted(t) ==
    /\ t \in DOMAIN tasks
    /\ tasks[t].pc = "update_completed"
    /\ jobs' = update_job(tasks[t].job,
                  [status |-> "COMPLETED", ended_at |-> tasks[t].ts,
                   metadata |-> "artifact_ids"])
    /\ tasks' = SetTask(t, [tasks[t] EXCEPT !.pc = "get_user", !.ts = NULL])
    /\ UNCHANGED <<users, calls, now, artifacts, usage, workers, proxies, loop, reqs, faults>>

\* get_user returns; update_usage is issued with date = utcnow().date().
TaskGetUser(t) ==
    /\ t \in DOMAIN tasks
    /\ tasks[t].pc = "get_user"
    /\ tasks' = SetTask(t, [tasks[t] EXCEPT !.pc = "update_usage", !.ts = now])
    /\ UNCHANGED <<users, calls, now, jobs, artifacts, usage, workers, proxies, loop, reqs, faults>>

\* update_usage takes effect; handle_job_completion returns and the finally
\* clause sets worker.status = "idle".
TaskUpdateUsage(t) ==
    /\ t \in DOMAIN tasks
    /\ tasks[t].pc = "update_usage"
    /\ usage' = update_usage(jobs[tasks[t].job].user_id, DateOf(tasks[t].ts),
                             jobs[tasks[t].job].cost_tokens, 1)
    /\ proxies' = SetStatus(tasks[t].worker, "idle")
    /\ tasks' = SetTask(t, [tasks[t] EXCEPT !.pc = "done", !.ts = NULL])
    /\ UNCHANGED <<users, calls, now, jobs, artifacts, workers, loop, reqs, faults>>

\* A store call of handle_job_completion raises: the except clause calls
\* handle_job_failure(job, "DISPATCH_ERROR", ...).
TaskCompletionError(t) ==
    /\ t \in DOMAIN tasks
    /\ tasks[t].pc \in {"create_artifact", "update_completed", "get_user", "update_usage"}
    /\ StoreRaises
    /\ faults' = faults + 1
    /\ tasks' = SetTask(t, failure_next(tasks[t]))
    /\ UNCHANGED <<users, calls, now, jobs, artifacts, usage, workers, proxies, loop, reqs>>

\* handle_job_failure: update_job(status="FAILED", ended_at, error) takes
\* effect; finally worker.status = "idle".
TaskUpdateFailed(t) ==
    /\ t \in DOMAIN tasks
    /\ tasks[t].pc = "update_failed"
    /\ jobs' = update_job(tasks[t].job,
                  [status |-> "FAILED", ended_at |-> tasks[t].ts,
                   error |-> "DISPATCH_ERROR"])
    /\ proxies' = SetStatus(tasks[t].worker, "idle")
    /\ tasks' = SetTask(t, [tasks[t] EXCEPT !.pc = "failed", !.ts = NULL])
    /\ UNCHANGED <<users, calls, now, artifacts, usage, workers, loop, reqs, faults>>

\* That update_job raises inside the except clause: the finally clause runs
\* and the exception leaves dispatch_job.
TaskUpdateFailedError(t) ==
    /\ t \in DOMAIN tasks
    /\ tasks[t].pc = "update_failed"
    /\ StoreRaises
    /\ faults' = faults + 1
    /\ proxies' = SetStatus(tasks[t].worker, "idle")
    /\ tasks' = SetTask(t, [tasks[t] EXCEPT !.pc = "raised", !.ts = NULL])
    /\ UNCHANGED <<users, calls, now, jobs, artifacts, usage, workers, loop, reqs>>

----------------------------------------------------------------------------
\* The state after startup(): the registry is empty (no worker has sent a
\* heartbeat), the dispatch loop found no worker and sleeps, no request is
\* in flight.

Started ==
    /\ users = <<>>
    /\ calls = <<>>
    /\ artifacts = <<>>
    /\ usage = <<>>
    /\ workers = <<>>
    /\ proxies = <<>>
    /\ loop = [pc |-> "sleep", worker |-> 0, priority |-> 0]
    /\ tasks = <<>>
    /\ reqs = <<>>
    /\ faults = 0

\* First start: the store holds the seed data only.
Init ==
    /\ now = 0
    /\ jobs = <<>>
    /\ Started

\* The job row a completed admission of (uid, shape) leaves in the store:
\* create_job followed by update_job(status="QUEUED", queued_at).
queued_row(uid, shape, t) ==
    [job_row([user_id |-> uid, capability |-> shape.capability,
              status |-> "CREATED",
              priority |-> get_or_create_user(uid).priority,
              cost_tokens |-> calculate_token_cost(shape.params),
              created_at |-> t, reply_context |-> "chat"])
     EXCEPT !.status = "QUEUED", !.queued_at = t]

\* The requests the pre-queued jobs come from.
QueuedKinds ==
    {<<1, [capability |-> "image", params |-> [capability |-> "image"]]>>,
     <<2, [capability |-> "text",  params |-> [capability |-> "absent"]]>>}

\* A start with jobs already QUEUED in the store (admitted one second apart
\* by an earlier run of the process).
InitQueued ==
    /\ now = MaxQueued
    /\ \E n \in 1..MaxQueued :
         \E kinds \in [1..n -> QueuedKinds] :
            jobs = [i \in 1..n |-> queued_row(kinds[i][1], kinds[i][2], i - 1)]
    /\ Started

AdmitSteps ==
    \E r \in 1..MaxJobs :
        \/ AdmitGetUsage(r)
        \/ AdmitCreateJob(r)
        \/ AdmitUpdateQueued(r)
        \/ AdmitCount(r)

\* The create_job endpoint serving requests of the users in U with the
\* shapes in S.
AdmitFrom(U, S) ==
    \/ \E uid \in U, shape \in S, rc \in ReplyContexts :
         AdmitRequest(uid, shape, rc)
    \/ AdmitSteps

\* Store calls of the endpoint that raise.
AdmitErrors == \E r \in 1..MaxJobs : AdmitStoreError(r)

\* Store calls of the dispatcher that raise.
DispatchErrors ==
    \/ LoopStoreError
    \/ \E t \in 1..MaxTasks :
         \/ TaskUpdateRunningError(t)
         \/ TaskCompletionError(t)
         \/ TaskUpdateFailedError(t)

StoreErrors == AdmitErrors \/ DispatchErrors

Admit == AdmitFrom(UserIds, RequestShapes)

\* The dispatch loop, spawning at most n dispatch tasks.
LoopUpTo(n) ==
    \/ LoopWake
    \/ LoopSelectNone
    \/ Len(tasks) < n /\ LoopDispatch

Loop == LoopUpTo(MaxTasks)

\* The responses a worker may give: the "status" of the body and the
\* number of its artifacts.
Responses == {"completed", "failed"} \X (0..MaxArtifacts)

\* The first n dispatch tasks, with the workers answering with a response
\* of R.
TasksUpTo(n, R) ==
    \E t \in 1..n :
        \/ TaskStart(t)
        \/ TaskUpdateRunning(t)
        \/ \E resp \in R : TaskRunJobReturns(t, resp[1], resp[2])
        \/ TaskRunJobRaises(t)
        \/ TaskCreateArtifact(t)
        \/ TaskUpdateCompleted(t)
        \/ TaskGetUser(t)
        \/ TaskUpdateUsage(t)
        \/ TaskUpdateFailed(t)

\* The dispatch tasks, with the workers answering with a response of R.
TaskFrom(R) == TasksUpTo(MaxTasks, R)

Task == TaskFrom(Responses)

\* The scheduler process is restarted: startup() connects to the store and
\* spawns a new dispatch loop.  The registry, the dispatch tasks and the
\* requests in flight are lost with the old process; the store is kept.
Restart ==
    /\ workers' = <<>>
    /\ proxies' = <<>>
    /\ loop' = [pc |-> "sleep", worker |-> 0, priority |-> 0]
    /\ tasks' = <<>>
    /\ reqs' = <<>>
    /\ calls' = <<>>
    /\ UNCHANGED <<users, now, jobs, artifacts, usage, faults>>

\* Concurrent first admissions: get_or_create_user calls for new keys.
NextUsers ==
    \/ \E key \in NewKeys : UserCall(key)
    \/ \E c \in 1..MaxCalls :
         \/ UserSelect(c)
         \/ UserInsert(c)
         \/ UserFetch(c)

\* The whole scheduler.
Next ==
    \/ Admit
    \/ Loop
    \/ Task
    \/ StoreErrors
    \/ \E w \in WorkerIds : Heartbeat(w)
    \/ Tick
    \/ NextUsers
    \/ Restart

Spec == Init /\ [][Next]_vars

\* A single worker process (worker 1) sends its first heartbeat.
FirstHeartbeat == proxies = <<>> /\ Heartbeat(1)

\* Admission next to the dispatcher: requests of every user and shape, one
\* worker, one dispatch, any worker response, store errors.
NextAdmission ==
    \/ Admit
    \/ LoopUpTo(1)
    \/ Task
    \/ StoreErrors
    \/ FirstHeartbeat

SpecAdmission == Init /\ [][NextAdmission]_vars

\* The quota of the free plan: requests of user 1 (daily_token_limit 1.0),
\* one worker, one dispatch that the worker completes or fails, store errors
\* in the endpoint.
NextQuota ==
    \/ AdmitFrom({1}, RequestShapes)
    \/ LoopUpTo(1)
    \/ TaskFrom({<<"completed", 0>>, <<"completed", 1>>})
    \/ AdmitErrors
    \/ FirstHeartbeat

SpecQuota == Init /\ [][NextQuota]_vars

\* The dispatcher on a store that already holds queued jobs: dispatch loop,
\* dispatch tasks and heartbeats; no request arrives.
NextDispatch ==
    \/ Loop
    \/ Task
    \/ DispatchErrors
    \/ \E w \in WorkerIds : Heartbeat(w)

SpecDispatch == InitQueued /\ [][NextDispatch]_vars

\* The dispatcher with the clock running: a store of queued jobs, one
\* dispatch, heartbeats, store errors, and time passing between the steps.
NextClock ==
    \/ LoopUpTo(1)
    \/ Task
    \/ DispatchErrors
    \/ \E w \in WorkerIds : Heartbeat(w)
    \/ Tick

SpecClock == InitQueued /\ [][NextClock]_vars

\* Admission to a queue that already holds jobs of earlier seconds: image
\* requests of every user, and one worker taking one job off the queue.
NextQueue ==
    \/ AdmitFrom(UserIds, {[capability |-> "image", params |-> [capability |-> "image"]]})
    \/ LoopUpTo(1)
    \/ TaskFrom({<<"completed", 1>>})
    \/ FirstHeartbeat

SpecQueue == InitQueued /\ [][NextQueue]_vars

\* Concurrent first admissions only.
SpecUsers == Init /\ [][NextUsers]_vars

\* A dispatch task is in flight with its job RUNNING.
Dispatching ==
    \E t \in DOMAIN tasks :
        /\ tasks[t].pc \notin {"done", "failed", "raised"}
        /\ jobs[tasks[t].job].status = "RUNNING"

\* The dispatcher across restarts of the scheduler process: a store of queued
\* jobs, one worker, one dispatch per run of the process, and restarts that
\* hit the process while a job is RUNNING.  The event loop runs every
\* coroutine that is ready, every worker RPC returns or times out, and the
\* worker process sends its heartbeat after each restart.
NextRestart ==
    \/ LoopUpTo(1)
    \/ Task
    \/ FirstHeartbeat
    \/ Dispatching /\ Restart

SpecRestart ==
    /\ InitQueued
    /\ [][NextRestart]_vars
    /\ WF_vars(LoopUpTo(1))
    /\ WF_vars(Task)
    /\ WF_vars(FirstHeartbeat)

\* The dispatch loop with failing queries: a store of queued jobs, one
\* worker, one dispatch, and store errors in select_next_job only.
NextLoopErrors ==
    \/ LoopUpTo(1)
    \/ LoopStoreError
    \/ Task
    \/ FirstHeartbeat

SpecLoopErrors == InitQueued /\ [][NextLoopErrors]_vars

\* The dispatcher finalizing jobs: a store of queued jobs, one worker, one
\* dispatch, store errors in the dispatcher.  The event loop runs every
\* coroutine that is ready and every worker RPC returns, errors or times out.
NextFinalize ==
    \/ LoopUpTo(1)
    \/ Task
    \/ DispatchErrors
    \/ FirstHeartbeat

SpecFinalize ==
    /\ InitQueued
    /\ [][NextFinalize]_vars
    /\ WF_vars(LoopUpTo(1))
    /\ WF_vars(Task)
    /\ WF_vars(FirstHeartbeat)

\* The dispatches a queue of MaxQueued jobs can need before each job has one.
\* The loop spawns a further dispatch for a job that is still QUEUED whenever
\* it holds an idle worker: once in the iteration that follows a spawn, and
\* once for every dispatch of an earlier job that ends and marks the worker
\* idle.  So job k gets at most 2^k dispatches.
DrainTasks == 2 ^ MaxQueued - 1

\* The dispatcher draining a queue: a store of jobs that were QUEUED before
\* the process started, and one worker that registers by heartbeat and whose
\* RPCs return.  The event loop runs every coroutine that is ready.
NextDrain ==
    \/ LoopUpTo(DrainTasks)
    \/ TasksUpTo(DrainTasks, {<<"completed", 1>>})
    \/ FirstHeartbeat

SpecDrain ==
    /\ InitQueued
    /\ [][NextDrain]_vars
    /\ WF_vars(LoopUpTo(DrainTasks))
    /\ WF_vars(TasksUpTo(DrainTasks, {<<"completed", 1>>}))
    /\ WF_vars(FirstHeartbeat)

----------------------------------------------------------------------------
\* Properties.

RECURSIVE SumCost(_)
SumCost(S) ==
    IF S = {} THEN 0
    ELSE LET j == CHOOSE x \in S : TRUE
         IN jobs[j].cost_tokens + SumCost(S \ {j})

\* A dispatch task that has ended.
Finished(t) == tasks[t].pc \in {"done", "failed", "raised"}

\* Every dispatch of job j has ended.
JobSettled(j) == \A t \in DOMAIN tasks : tasks[t].job = j => Finished(t)

\* No dispatch is in flight.
Settled == \A t \in DOMAIN tasks : Finished(t)

\* The dispatches of job j that ran update_usage.
Debits(j) == Cardinality({t \in DOMAIN tasks : tasks[t].job = j /\ tasks[t].pc = "done"})

\* C1: for every worker, at most one job has worker_id = W and status RUNNING.
OneRunningJobPerWorker ==
    \A w \in WorkerIds :
        Cardinality({j \in DOMAIN jobs :
            jobs[j].status = "RUNNING" /\ jobs[j].worker_id = w}) <= 1

\* C2: no job is handed out twice: no two dispatch tasks are spawned for the
\* same job id.
NoJobDispatchedTwice ==
    \A t1, t2 \in DOMAIN tasks : tasks[t1].job = tasks[t2].job => t1 = t2

\* C3: every dispatch_job(worker, job) that is started has job.capability in
\* worker.capabilities.
DispatchMatchesCapability ==
    \A t \in DOMAIN tasks :
        jobs[tasks[t].job].capability \in proxies[tasks[t].worker].capabilities

\* C4: when every queued job matches the selecting worker's capabilities, the
\* job select_next_job returns (the one the loop spawns dispatch_job for) has
\* the highest priority among the QUEUED jobs and, within that priority, the
\* oldest created_at.
SelectReturnsBestQueued ==
    [][Len(tasks') > Len(tasks) =>
        LET job == tasks'[Len(tasks')].job
            queued == {k \in DOMAIN jobs : jobs[k].status = "QUEUED"}
        IN (\A k \in queued :
                jobs[k].capability \in proxies[loop.worker].capabilities)
           => \A k \in queued :
                \/ jobs[k].priority < jobs[job].priority
                \/ /\ jobs[k].priority = jobs[job].priority
                   /\ jobs[job].created_at <= jobs[k].created_at]_vars

\* C5: every status change of a job is an edge of the state machine, so a
\* COMPLETED or FAILED job never changes status again.
StatusEdges ==
    {<<"CREATED", "QUEUED">>, <<"QUEUED", "RUNNING">>,
     <<"RUNNING", "COMPLETED">>, <<"RUNNING", "FAILED">>}

JobStateMachine ==
    [][\A j \in DOMAIN jobs :
         jobs'[j].status # jobs[j].status
            => <<jobs[j].status, jobs'[j].status>> \in StatusEdges]_vars

\* C6: once all dispatches have settled, usage_daily(U, D) holds the summed
\* cost_tokens, and the count, of the jobs of U that are COMPLETED with
\* ended_at on D.
CompletedOn(u, d) ==
    {j \in DOMAIN jobs :
        /\ jobs[j].user_id = u
        /\ jobs[j].status = "COMPLETED"
        /\ DateOf(jobs[j].ended_at) = d}

UsageRow(u, d) ==
    IF <<u, d>> \in DOMAIN usage
    THEN usage[<<u, d>>]
    ELSE [tokens_used |-> 0, jobs_completed |-> 0]

UsageMatchesCompleted ==
    Settled =>
        \A u \in UserIds, d \in 0..DateOf(now) :
            /\ UsageRow(u, d).tokens_used = SumCost(CompletedOn(u, d))
            /\ UsageRow(u, d).jobs_completed = Cardinality(CompletedOn(u, d))

\* C7: a request whose user has tokens_used + cost > daily_token_limit when
\* the endpoint checks the quota is answered 402 in that step, which leaves
\* the job rows and the usage counters unchanged; it does nothing afterwards;
\* and every job row is inserted by a request that passed the check.
QuotaExceededRejected ==
    [][/\ \A r \in DOMAIN reqs :
            (reqs[r].pc = "get_usage" /\ reqs'[r].pc # "get_usage"
                /\ reqs'[r].result # 500
                /\ UsageRow(reqs[r].user_id, DateOf(reqs[r].ts)).tokens_used
                     + reqs'[r].cost > Plans[Users[reqs[r].user_id]].daily_token_limit)
            => /\ reqs'[r].result = 402
               /\ reqs'[r].pc = "done"
               /\ jobs' = jobs
               /\ usage' = usage
       /\ \A r \in DOMAIN reqs : reqs[r].result = 402 => reqs'[r] = reqs[r]
       /\ Len(jobs') > Len(jobs) =>
            \E r \in DOMAIN reqs :
                /\ reqs[r].pc = "create_job"
                /\ reqs'[r].job_id = Len(jobs')
                /\ reqs[r].seen + reqs[r].cost
                     <= Plans[Users[reqs[r].user_id]].daily_token_limit]_vars

\* C7 witness: a request was answered 402 while the user's completed job had
\* used up the quota.
QuotaExceededSeen ==
    \E r \in DOMAIN reqs :
        /\ reqs[r].result = 402
        /\ reqs[r].seen + reqs[r].cost > Plans[Users[reqs[r].user_id]].daily_token_limit
        /\ reqs[r].job_id = 0
        /\ reqs[r].seen > 0

\* C8: a worker proxy is busy only while a dispatch_job holding it is running:
\* once every dispatch on it has ended, on whatever exit path, it is idle.
BusyOnlyWhileDispatching ==
    \A p \in DOMAIN proxies :
        proxies[p].status = "busy"
            => \E t \in DOMAIN tasks :
                 tasks[t].worker = p /\ tasks[t].pc # "created" /\ ~Finished(t)

\* C9: a job one of whose worker RPCs raised ends, once its dispatches have
\* settled, FAILED with error.code DISPATCH_ERROR and ended_at set, and is
\* not debited to usage.
RpcErrorEndsFailed ==
    \A t \in DOMAIN tasks :
        (tasks[t].response = "error" /\ JobSettled(tasks[t].job))
            => /\ jobs[tasks[t].job].status = "FAILED"
               /\ jobs[tasks[t].job].error = "DISPATCH_ERROR"
               /\ jobs[tasks[t].job].ended_at # NULL
               /\ Debits(tasks[t].job) = 0

\* C10: a job whose worker answered 2xx with status "failed" is never
\* COMPLETED, is not debited, and is FAILED once the dispatch has ended.
WorkerFailureEndsFailed ==
    \A t \in DOMAIN tasks :
        tasks[t].response = "failed"
            => /\ jobs[tasks[t].job].status # "COMPLETED"
               /\ Debits(tasks[t].job) = 0
               /\ Finished(t) => jobs[tasks[t].job].status = "FAILED"

\* C11: a heartbeat of an already registered worker sets last_heartbeat to now
\* and leaves the worker's status as it was (busy stays busy); a worker that
\* was not registered starts idle.
HeartbeatKeepsStatus ==
    [][Len(proxies') > Len(proxies) =>
        \A i \in DOMAIN workers' :
            LET new == proxies'[workers'[i].proxy]
            IN IF i \in DOMAIN workers
               THEN workers'[i].proxy # workers[i].proxy
                      => /\ new.last_heartbeat = now
                         /\ new.status = proxies[workers[i].proxy].status
               ELSE new.status = "idle" /\ new.last_heartbeat = now]_vars

\* C12: find_idle_worker returns a worker exactly when some registered worker
\* is idle with now - last_heartbeat <= 60 s, and the worker it returns is
\* such a worker; a worker whose heartbeat is older is not returned.
FindsIdleWithinTTL ==
    LET fresh == {i \in DOMAIN workers :
                    /\ proxies[workers[i].proxy].status = "idle"
                    /\ now - proxies[workers[i].proxy].last_heartbeat <= HEARTBEAT_TTL}
        worker == find_idle_worker(proxies)
    IN /\ worker # 0 => \E i \in fresh : workers[i].proxy = worker
       /\ fresh # {} => worker # 0

\* The baseline cost table of the claim, in tenths of a token.
BaselineCost(capability) ==
    CASE capability = "image" -> 10
      [] capability = "text"  -> 5
      [] capability = "audio" -> 5
      [] capability = "video" -> 20

\* C13: the cost computed at admission, and stored in the job row, is the
\* baseline cost of the request's capability, whatever params contains.
CostFollowsCapability ==
    /\ \A r \in DOMAIN reqs :
         reqs[r].seen # NULL => reqs[r].cost = BaselineCost(reqs[r].capability)
    /\ \A r \in DOMAIN reqs :
         reqs[r].job_id # 0 =>
            jobs[reqs[r].job_id].cost_tokens = BaselineCost(reqs[r].capability)

\* The QUEUED jobs ahead of job j: strictly higher priority, or equal
\* priority and strictly earlier created_at.
QueuedAhead(j) ==
    {k \in DOMAIN jobs :
        /\ jobs[k].status = "QUEUED"
        /\ \/ jobs[k].priority > jobs[j].priority
           \/ /\ jobs[k].priority = jobs[j].priority
              /\ jobs[k].created_at < jobs[j].created_at}

\* C14: the queue_position an admission answers is the number of QUEUED jobs
\* ahead of the new job, and estimated_time_seconds is (queue_position + 1) * 20.
QueuePositionCountsAhead ==
    [][\A r \in DOMAIN reqs :
         (reqs[r].result = 0 /\ reqs'[r].result = 200)
            => /\ reqs'[r].queue_position = Cardinality(QueuedAhead(reqs[r].job_id))
               /\ reqs'[r].estimated_time_seconds
                    = (reqs'[r].queue_position + 1) * 20]_vars

\* C14 witness: an admission was answered with queue_position 1 and 40 s
\* because a job of equal priority, created earlier, was still queued.
QueuedBehindEarlierJob ==
    \E r \in DOMAIN reqs :
        /\ reqs[r].result = 200
        /\ reqs[r].queue_position = 1
        /\ reqs[r].estimated_time_seconds = 40
        /\ \E k \in DOMAIN jobs :
             /\ jobs[k].priority = jobs[reqs[r].job_id].priority
             /\ jobs[k].created_at < jobs[reqs[r].job_id].created_at

\* C15: get_or_create_user is idempotent on its key: no call fails, the calls
\* that have returned for one key have returned the same user, and the key
\* has at most one row (exactly one once a call has returned).
GetOrCreateUserIdempotent ==
    /\ \A c \in DOMAIN calls : calls[c].pc # "raised"
    /\ \A c, d \in DOMAIN calls :
         (calls[c].pc = "done" /\ calls[d].pc = "done" /\ calls[c].key = calls[d].key)
            => calls[c].user_id = calls[d].user_id
    /\ \A key \in NewKeys : Cardinality(user_rows(key)) <= 1
    /\ \A c \in DOMAIN calls :
         calls[c].pc = "done" => Cardinality(user_rows(calls[c].key)) = 1

\* C16: once the dispatches of a job have settled, the job owns artifact rows
\* only if its status is COMPLETED.
ArtifactsOnlyOfCompleted ==
    \A a \in DOMAIN artifacts :
        JobSettled(artifacts[a].job_id)
            => jobs[artifacts[a].job_id].status = "COMPLETED"

\* C17: a request that the endpoint answers with an error (402, or 500 after
\* a store error at any step) has added no job row, and the step that fails
\* it leaves the usage counters unchanged.
AdmissionFailureLeavesNoTrace ==
    [][\A r \in DOMAIN reqs :
         (reqs'[r].pc = "done" /\ reqs'[r].result # 200)
            => /\ reqs'[r].job_id = 0
               /\ reqs'[r] # reqs[r] => usage' = usage]_vars

\* The timestamps of a job row in the order of the job's life.
Stamps(row) == <<row.created_at, row.queued_at, row.started_at, row.ended_at>>

\* C18: in every job row the timestamps that are set are ordered
\* created_at <= queued_at <= started_at <= ended_at, and no step changes a
\* timestamp that is set.
TimestampsOrderedAndKept ==
    [][\A j \in DOMAIN jobs' :
         /\ \A a, b \in 1..4 :
              (a < b /\ Stamps(jobs'[j])[a] # NULL /\ Stamps(jobs'[j])[b] # NULL)
                 => Stamps(jobs'[j])[a] <= Stamps(jobs'[j])[b]
         /\ j \in DOMAIN jobs =>
              \A a \in 1..4 :
                 Stamps(jobs[j])[a] # NULL
                    => Stamps(jobs'[j])[a] = Stamps(jobs[j])[a]]_vars

\* The jobs of user u that were in flight when a later job of u was admitted.
\* The jobs of the store at startup are all QUEUED and were admitted in the
\* order of their ids, so these are the jobs of u that have a later job of u.
InFlightAtLaterAdmission(u) ==
    {j \in DOMAIN jobs :
        /\ jobs[j].user_id = u
        /\ \E k \in DOMAIN jobs : k > j /\ jobs[k].user_id = u}

\* C19: for every user and day, tokens_used exceeds the plan's
\* daily_token_limit by at most the summed cost of the user's jobs that were
\* in flight when a later job of the user was admitted; a user whose jobs
\* were admitted one after the other's end never exceeds the limit.
QuotaOverrunBounded ==
    \A u \in UserIds, d \in 0..DateOf(now) :
        UsageRow(u, d).tokens_used
            <= Plans[Users[u]].daily_token_limit
                 + SumCost(InFlightAtLaterAdmission(u))

\* A job that is RUNNING with no dispatch task of the running process holding
\* it: the process that dispatched it has been restarted.
Orphaned(j) ==
    /\ j \in DOMAIN jobs
    /\ jobs[j].status = "RUNNING"
    /\ \A t \in DOMAIN tasks : tasks[t].job # j

\* C20: a job found RUNNING after a restart is eventually FAILED with error
\* code ORPHANED; it does not stay RUNNING for ever.
OrphansEndFailed ==
    \A j \in 1..MaxQueued :
        [](Orphaned(j) =>
             <>(/\ j \in DOMAIN jobs
                /\ jobs[j].status = "FAILED"
                /\ jobs[j].error = "ORPHANED"))

\* C21: an iteration of the dispatch loop that fails with a store error
\* leaves every job row and every worker's status as they were, spawns no
\* dispatch, and leaves the loop sleeping, from where it iterates again.
LoopSurvivesErrors ==
    [][(faults' > faults /\ loop' # loop)
          => /\ jobs' = jobs
             /\ proxies' = proxies
             /\ workers' = workers
             /\ tasks' = tasks
             /\ loop'.pc = "sleep"]_vars

\* C21 witness: after failed iterations the loop has just spawned a dispatch
\* for a queued job (the errors of this specification are the loop's own).
DispatchedAfterLoopError ==
    /\ faults > 0
    /\ Len(tasks) = 1
    /\ tasks[1].pc = "created"
    /\ jobs[tasks[1].job].status = "QUEUED"

\* C22: the reply_context of a request stays stored on its job row (the
\* column the INSERT writes it to) through enqueue, dispatch, completion and
\* failure.
ReplyContextKept ==
    \A r \in DOMAIN reqs :
        reqs[r].job_id # 0
            => jobs[reqs[r].job_id].metadata = reqs[r].reply_context

\* C23: a job that is RUNNING is eventually COMPLETED or FAILED, also when a
\* store call of handle_job_completion or handle_job_failure raises.
RunningEndsTerminal ==
    \A j \in 1..MaxQueued :
        []((j \in DOMAIN jobs /\ jobs[j].status = "RUNNING")
             => <>(j \in DOMAIN jobs /\ jobs[j].status \in {"COMPLETED", "FAILED"}))

\* C24: a job that is QUEUED, also one that was QUEUED in the store before
\* the process started, is eventually dispatched: it becomes RUNNING once a
\* worker has registered by heartbeat and its RPCs return.
QueuedEventuallyRuns ==
    \A j \in 1..MaxQueued :
        []((j \in DOMAIN jobs /\ jobs[j].status = "QUEUED")
             => <>(j \in DOMAIN jobs /\ jobs[j].status = "RUNNING"))

\* C24 witness: the store held two queued jobs at startup and both have
\* been dispatched and started.
QueueDrained ==
    /\ Len(jobs) = MaxQueued
    /\ \A j \in DOMAIN jobs :
         /\ jobs[j].queued_at < now
         /\ jobs[j].started_at # NULL
         /\ jobs[j].status \in {"RUNNING", "COMPLETED", "FAILED"}

====
